---- MODULE Spec2Model ----
(***************************************************************************)
(* browserstate (python): the storage providers (LocalStorage,             *)
(* RedisStorage) over a local filesystem and a Redis key-value store, and  *)
(* the BrowserState session manager (mount_session / unmount_session /     *)
(* delete_session) on top of them.                                         *)
(*                                                                         *)
(* A filesystem is a function from absolute paths (sequences of path       *)
(* components) to DIR or to a file's content.  A Redis store is a function *)
(* from keys to values.  Path strings are rendered character by character  *)
(* where the code compares them as strings (os.path.commonprefix).         *)
(***************************************************************************)
EXTENDS Integers, Sequences, FiniteSets, TLC

VARIABLES fs, redis, storage, active_session, persisted, last, steps

vars == <<fs, redis, storage, active_session, persisted, last, steps>>

(***************************************************************************)
(* Bounds                                                                  *)
(***************************************************************************)
\* longest relative path (in components) of a tree that is uploaded
MaxPathLen == 2
\* number of manager operations in a run
MaxSteps == 5
\* number of provider operations in a run
ProviderMaxSteps == 5
\* number of operations on the stored sessions in a run
KeyMaxSteps == 5

(***************************************************************************)
(* Universe of inputs                                                      *)
(***************************************************************************)
UserId == "u"
\* "s12" has "s1" as a string prefix; "g" stands for a uuid4-generated id
Sessions == {"s1", "s12"}
GeneratedId == "g"
\* a session id that contains the key delimiter
DelimiterId == "s1:metadata"
\* a session id that contains the path separator
NestedId == "s1/a"
AllSessions == Sessions \cup {GeneratedId, DelimiterId, NestedId}
DIR == "<dir>"
\* what a caller (the browser) writes in a working directory: a file, an
\* empty file, a file in a subdirectory
CallerWrites ==
  {[rel |-> <<"a">>, data |-> "hello"], [rel |-> <<"a">>, data |-> ""],
   [rel |-> <<"d", "a">>, data |-> "hello"]}
\* sorted order of directory listings (tarfile.add sorts os.listdir)
NameOrder == <<"a", "d", "evil", "g", "ok", "s1", "s12", "x">>

Chars(n) ==
  CASE n = "tmp" -> <<"t", "m", "p">>
    [] n = "browserstate" -> <<"b", "r", "o", "w", "s", "e", "r", "s", "t", "a", "t", "e">>
    [] n = "base" -> <<"b", "a", "s", "e">>
    [] n = "evil" -> <<"e", "v", "i", "l">>
    [] n = "ok" -> <<"o", "k">>
    [] n = "s1" -> <<"s", "1">>
    [] n = "s12" -> <<"s", "1", "2">>
    [] n = ".." -> <<".", ".">>
    [] OTHER -> <<n>>

(***************************************************************************)
(* Paths: os.path                                                          *)
(***************************************************************************)
IsPrefix(p, q) == Len(p) <= Len(q) /\ SubSeq(q, 1, Len(p)) = p

Ancestors(p) == {SubSeq(p, 1, i) : i \in 1..Len(p)}

RECURSIVE normpath(_)
\* os.path.normpath of an absolute path: ".." removes the component before it
normpath(p) ==
  IF p = <<>> THEN <<>>
  ELSE LET front == normpath(SubSeq(p, 1, Len(p) - 1))
           n == p[Len(p)]
       IN IF n = ".."
          THEN (IF front = <<>> THEN <<>> ELSE SubSeq(front, 1, Len(front) - 1))
          ELSE Append(front, n)

\* os.path.abspath(os.path.join(directory, name)) for a relative name
abspath(p) == normpath(p)

RECURSIVE Render(_)
\* the path as a string: "/" before every component
Render(p) ==
  IF p = <<>> THEN <<>>
  ELSE Render(SubSeq(p, 1, Len(p) - 1)) \o <<"/">> \o Chars(p[Len(p)])

\* os.path.commonprefix: the longest common leading string, character-wise
commonprefix(a, b) ==
  LET n == IF Len(a) < Len(b) THEN Len(a) ELSE Len(b)
      same == {i \in 0..n : \A j \in 1..i : a[j] = b[j]}
      k == CHOOSE i \in same : \A j \in same : j <= i
  IN SubSeq(a, 1, k)

\* RedisStorage._safe_extract.is_within_directory
is_within_directory(directory, target) ==
  LET abs_directory == Render(abspath(directory))
      abs_target == Render(abspath(target))
  IN commonprefix(abs_directory, abs_target) = abs_directory

\* os.path.commonpath-based containment (tarfile's 'data' filter)
InsideDestination(dest, target) == IsPrefix(abspath(dest), abspath(target))

(***************************************************************************)
(* Filesystem: os, shutil                                                  *)
(***************************************************************************)
Restrict(f, S) == [x \in S |-> f[x]]

exists(f, p) == p \in DOMAIN f

rmtree(f, p) == Restrict(f, {q \in DOMAIN f : ~IsPrefix(p, q)})

\* os.makedirs(p, exist_ok=True)
makedirs(f, p) == f @@ [q \in Ancestors(p) |-> DIR]

\* the entries below directory p, by relative path
TreeOf(f, p) ==
  LET below == {q \in DOMAIN f : IsPrefix(p, q) /\ q # p}
  IN [r \in {SubSeq(q, Len(p) + 1, Len(q)) : q \in below} |-> f[p \o r]]

Files(t) == Restrict(t, {r \in DOMAIN t : t[r] # DIR})

\* write one file, creating the directories above it
WriteFile(f, p, c) ==
  [q \in {p} |-> c] @@ makedirs(f, SubSeq(p, 1, Len(p) - 1))

\* shutil.copytree(src, dst, symlinks, dirs_exist_ok): os.makedirs(dst,
\* exist_ok=dirs_exist_ok) first, then every entry of src is copied
copytree(f, src, dst, dirs_exist_ok) ==
  IF ~exists(f, src) THEN [ok |-> FALSE, fs |-> f]
  ELSE IF exists(f, dst) /\ ~dirs_exist_ok THEN [ok |-> FALSE, fs |-> f]
  ELSE LET t == TreeOf(f, src)
       IN [ok |-> TRUE,
           fs |-> [q \in {dst \o r : r \in DOMAIN t} |->
                     t[SubSeq(q, Len(dst) + 1, Len(q))]] @@ makedirs(f, dst)]

RECURSIVE SetToSeq(_)
\* list(a_set): the elements once each, in an order the caller cannot choose
SetToSeq(S) ==
  IF S = {} THEN <<>>
  ELSE LET x == CHOOSE y \in S : TRUE IN <<x>> \o SetToSeq(S \ {x})

TempDir == <<"tmp">>

(***************************************************************************)
(* LocalStorage (storage/local_storage.py); the bodies of its coroutines   *)
(***************************************************************************)
BasePath == <<"base">>

\* LocalStorage._get_user_path: creates the user's directory as it goes
Local_get_user_path(f, user_id) ==
  [fs |-> makedirs(f, BasePath \o <<user_id>>), path |-> BasePath \o <<user_id>>]

Local_get_session_path(f, user_id, session_id) ==
  LET up == Local_get_user_path(f, user_id)
  IN [fs |-> up.fs, path |-> up.path \o <<session_id>>]

\* the components os.path.join makes of an id: one for each part between
\* path separators
PathParts(id) ==
  CASE id = "s1/a" -> <<"s1", "a">>
    [] OTHER -> <<id>>

\* _get_temp_path (both providers): tmp/browserstate/<user> is created
get_temp_path(f, user_id, session_id) ==
  LET temp_dir == TempDir \o <<"browserstate", user_id>>
  IN [fs |-> makedirs(f, temp_dir), path |-> temp_dir \o PathParts(session_id)]

TempPath(user_id, session_id) == TempDir \o <<"browserstate", user_id>> \o PathParts(session_id)

SessionPath(user_id, session_id) == BasePath \o <<user_id, session_id>>

\* shutil.copytree(src, dst, True): the third positional parameter of
\* copytree is symlinks, so dirs_exist_ok keeps its default, False
LocalCopyDirsExistOk == FALSE

LocalStorage_download(f, user_id, session_id) ==
  LET sp == Local_get_session_path(f, user_id, session_id)
      tp == get_temp_path(sp.fs, user_id, session_id)
      session_path == sp.path
      target_path == tp.path
  IN IF exists(tp.fs, session_path)
     THEN LET cleared == IF exists(tp.fs, target_path)
                         THEN rmtree(tp.fs, target_path) ELSE tp.fs
              made == makedirs(cleared, target_path)
              c == copytree(made, session_path, target_path, LocalCopyDirsExistOk)
          IN [result |-> IF c.ok THEN "ok" ELSE "raise", fs |-> c.fs,
              path |-> target_path]
     ELSE [result |-> "ok", fs |-> makedirs(tp.fs, target_path),
           path |-> target_path]

LocalStorage_upload(f, user_id, session_id, file_path) ==
  LET sp == Local_get_session_path(f, user_id, session_id)
      made == makedirs(sp.fs, sp.path)
      c == copytree(made, file_path, sp.path, LocalCopyDirsExistOk)
  IN [result |-> IF c.ok THEN "ok" ELSE "raise", fs |-> c.fs]

LocalStorage_delete_session(f, user_id, session_id) ==
  LET sp == Local_get_session_path(f, user_id, session_id)
  IN [result |-> "ok",
      fs |-> IF exists(sp.fs, sp.path) THEN rmtree(sp.fs, sp.path) ELSE sp.fs]

\* os.scandir(user_path): the names of the directories in it
LocalStorage_list_sessions(f, user_id) ==
  LET up == Local_get_user_path(f, user_id)
      names == {q[Len(q)] : q \in {q \in DOMAIN up.fs :
                  /\ Len(q) = Len(up.path) + 1
                  /\ IsPrefix(up.path, q)
                  /\ up.fs[q] = DIR}}
  IN [fs |-> up.fs, listed |-> SetToSeq(names)]

(***************************************************************************)
(* Stored values.  A value is [bytes, arch, members]: bytes are the value  *)
(* as stored, abbreviated to its leading bytes and the characters that     *)
(* decide whether base64 decoding of it succeeds; arch is what the payload *)
(* is ("tar", "zip" or "none"); members are the archive's entries in       *)
(* order.                                                                  *)
(***************************************************************************)
GzipMagic == <<31, 139>>
ZipMagic == <<80, 75, 3, 4>>
\* a zip archive without entries is only an end-of-central-directory record
EmptyZipMagic == <<80, 75, 5, 6>>
GzipHead == <<31, 139, 8, 0>>

\* data[:n]
Take(data, n) == SubSeq(data, 1, IF n < Len(data) THEN n ELSE Len(data))

\* the base64 alphabet: the sextet an ASCII code stands for, -1 for a byte
\* outside the alphabet
B64Index(c) ==
  IF c \in 65..90 THEN c - 65
  ELSE IF c \in 97..122 THEN c - 71
  ELSE IF c \in 48..57 THEN c + 4
  ELSE IF c = 43 THEN 62
  ELSE IF c = 47 THEN 63
  ELSE -1

B64Char(v) ==
  IF v < 26 THEN v + 65
  ELSE IF v < 52 THEN v + 71
  ELSE IF v < 62 THEN v - 4
  ELSE IF v = 62 THEN 43 ELSE 47

RECURSIVE b64encode(_)
\* base64.b64encode: three bytes become four characters, "=" pads the end
b64encode(data) ==
  IF data = <<>> THEN <<>>
  ELSE LET n == Len(data)
           b1 == data[1]
           b2 == IF n >= 2 THEN data[2] ELSE 0
           b3 == IF n >= 3 THEN data[3] ELSE 0
           v == b1 * 65536 + b2 * 256 + b3
       IN <<B64Char(v \div 262144), B64Char((v \div 4096) % 64),
            IF n >= 2 THEN B64Char((v \div 64) % 64) ELSE 61,
            IF n >= 3 THEN B64Char(v % 64) ELSE 61>>
          \o (IF n > 3 THEN b64encode(SubSeq(data, 4, n)) ELSE <<>>)

RECURSIVE B64Quads(_)
\* the bytes that a sequence of sextets stands for
B64Quads(sx) ==
  IF Len(sx) < 2 THEN <<>>
  ELSE LET n == Len(sx)
           v == sx[1] * 262144 + sx[2] * 4096
                + (IF n >= 3 THEN sx[3] * 64 ELSE 0) + (IF n >= 4 THEN sx[4] ELSE 0)
       IN <<v \div 65536>>
          \o (IF n >= 3 THEN <<(v \div 256) % 256>> ELSE <<>>)
          \o (IF n >= 4 THEN <<v % 256>> ELSE <<>>)
          \o (IF n > 4 THEN B64Quads(SubSeq(sx, 5, n)) ELSE <<>>)

\* base64.b64decode(data), validate=False: bytes outside the alphabet are
\* discarded; binascii.Error when the characters left are one more than a
\* multiple of four, or not a multiple of four and not padded with "="
b64decode(data) ==
  LET idx == {i \in 1..Len(data) : B64Index(data[i]) >= 0}
      chars == SelectSeq(data, LAMBDA c : B64Index(c) >= 0)
      sextets == [i \in 1..Len(chars) |-> B64Index(chars[i])]
      pads == Cardinality({i \in 1..Len(data) :
                             data[i] = 61 /\ \A j \in idx : j < i})
      left == Len(chars) % 4
  IN IF left = 1 \/ (left = 2 /\ pads < 2) \/ (left = 3 /\ pads < 1)
     THEN [ok |-> FALSE, bytes |-> <<>>]
     ELSE [ok |-> TRUE, bytes |-> B64Quads(sextets)]

Member(name, type, data) == [name |-> name, type |-> type, data |-> data]

RECURSIVE TarAdd(_, _, _), TarChildren(_, _, _, _)
\* tarfile.TarFile.add(name, arcname), recursive, children in sorted order
TarAdd(f, p, arc) ==
  IF f[p] = DIR
  THEN <<Member(arc, "dir", "")>> \o TarChildren(f, p, arc, 1)
  ELSE <<Member(arc, "file", f[p])>>

TarChildren(f, p, arc, i) ==
  IF i > Len(NameOrder) THEN <<>>
  ELSE (IF exists(f, p \o <<NameOrder[i]>>)
        THEN TarAdd(f, p \o <<NameOrder[i]>>, arc \o <<NameOrder[i]>>)
        ELSE <<>>) \o TarChildren(f, p, arc, i + 1)

\* os.path.basename
basename(p) == p[Len(p)]

\* RedisStorage.upload, tar.gz branch: the archive name of the root is the
\* base name of the uploaded directory
TarArcname(file_path) == <<basename(file_path)>>

RECURSIVE ZipWalk(_, _, _, _)
\* RedisStorage.upload, zip branch: os.walk, one entry per file, named by
\* os.path.relpath(file, file_path); directories get no entry
ZipWalk(f, p, rel, i) ==
  IF i > Len(NameOrder) THEN <<>>
  ELSE LET n == NameOrder[i]
           q == p \o <<n>>
       IN (IF ~exists(f, q) THEN <<>>
           ELSE IF f[q] = DIR THEN ZipWalk(f, q, rel \o <<n>>, 1)
           ELSE <<Member(rel \o <<n>>, "file", f[q])>>)
          \o ZipWalk(f, p, rel, i + 1)

\* tarfile.open(mode="w:gz") ... getvalue()
TarGzBlob(members) ==
  [bytes |-> GzipHead, arch |-> "tar", members |-> members]

\* the first bytes of a zip file: a local file header (signature, version
\* 20), or the end-of-central-directory record when there is no entry
ZipHead(members) ==
  IF members = <<>> THEN EmptyZipMagic \o <<0, 0>> ELSE ZipMagic \o <<20, 0>>

\* zipfile.ZipFile(..., "w") then base64.b64encode of the file's bytes
ZipBase64Blob(members) ==
  [bytes |-> b64encode(ZipHead(members)), arch |-> "zip", members |-> members]

\* data[:4] of the stored value
RawHead(data) == Take(data.bytes, 4)

\* a variant of _detect_format that tries the base64 rule first
detect_format_base64_first(data) ==
  IF b64decode(data.bytes).ok
     /\ Take(b64decode(data.bytes).bytes, 4) = ZipMagic THEN "zip"
  ELSE IF Take(data.bytes, 2) = GzipMagic THEN "tar.gz"
  ELSE IF RawHead(data) = ZipMagic THEN "zip"
  ELSE "unknown"

\* RedisStorage._detect_format
detect_format(data) ==
  IF Take(data.bytes, 2) = GzipMagic THEN "tar.gz"
  ELSE IF b64decode(data.bytes).ok
          /\ Take(b64decode(data.bytes).bytes, 4) = ZipMagic THEN "zip"
  ELSE IF RawHead(data) = ZipMagic THEN "zip"
  ELSE "unknown"

\* RedisStorage.download, zip branch: the bytes written to the temporary
\* zip file are the base64 decoding of the value when that does not raise,
\* and the value itself otherwise
download_zip_data(data) ==
  IF b64decode(data.bytes).ok THEN b64decode(data.bytes).bytes ELSE data.bytes

\* zipfile.ZipFile(zip_path, "r") opens what starts as a zip file does and
\* raises BadZipFile on anything else
IsZipFile(data, bytes) ==
  data.arch = "zip" /\ Take(bytes, 4) \in {ZipMagic, EmptyZipMagic}

(***************************************************************************)
(* Extraction                                                              *)
(***************************************************************************)
ExtractMember(f, path, m) ==
  LET dest == normpath(path \o m.name)
  IN IF m.type = "dir" THEN makedirs(f, dest) ELSE WriteFile(f, dest, m.data)

RECURSIVE extractall(_, _, _, _, _)
\* tarfile.TarFile.extractall(path): members in order.  Without an
\* extraction filter (Python before 3.14) every member is written where its
\* name leads; with the 'data' filter (the default from 3.14) a member that
\* leaves the destination raises at that member.
extractall(f, path, members, i, filter) ==
  IF i > Len(members) THEN [ok |-> TRUE, fs |-> f]
  ELSE IF filter = "data" /\ ~InsideDestination(path, path \o members[i].name)
  THEN [ok |-> FALSE, fs |-> f]
  ELSE extractall(ExtractMember(f, path, members[i]), path, members, i + 1, filter)

\* RedisStorage._safe_extract: every member is checked, then extractall
safe_extract(f, path, members, filter) ==
  IF \E i \in 1..Len(members) :
       ~is_within_directory(path, path \o members[i].name)
  THEN [ok |-> FALSE, fs |-> f]
  ELSE extractall(f, path, members, 1, filter)

\* zipfile.ZipFile._extract_member drops "..", "." and empty components
ZipSanitize(name) == SelectSeq(name, LAMBDA c : c \notin {"..", ".", ""})

RECURSIVE zip_extractall(_, _, _, _)
zip_extractall(f, path, members, i) ==
  IF i > Len(members) THEN [ok |-> TRUE, fs |-> f]
  ELSE zip_extractall(WriteFile(f, path \o ZipSanitize(members[i].name),
                                members[i].data), path, members, i + 1)

(***************************************************************************)
(* RedisStorage (storage/redis_storage.py)                                 *)
(***************************************************************************)
KeyPrefix == "browserstate"

\* the formats an instance can be configured with
Formats == {"zip", "tar.gz"}

\* str.split(":"): a key is kept as the parts between its delimiters
Parts(id) ==
  CASE id = "s1:metadata" -> <<"s1", "metadata">>
    [] OTHER -> <<id>>

\* f"{self.key_prefix}:{user_id}:{session_id}"
get_key(user_id, session_id) ==
  <<KeyPrefix>> \o Parts(user_id) \o Parts(session_id)

get_metadata_key(user_id, session_id) ==
  get_key(user_id, session_id) \o <<"metadata">>

\* fault: the Redis command that fails during the call, if any
DownloadFaults == {"none", "get"}
UploadFaults == {"none", "set_data", "set_metadata"}
DeleteFaults == {"none", "delete_data", "delete_metadata"}
ListFaults == {"none", "keys"}

\* a variant of download that unpacks by the format the instance is
\* configured with
RedisStorage_download_by_config(f, r, user_id, session_id, fault, filter) ==
  LET session_key == get_key(user_id, session_id)
      tp == get_temp_path(f, user_id, session_id)
      made == makedirs(rmtree(tp.fs, tp.path), tp.path)
      session_data == r[session_key]
      x == IF storage.format = "tar.gz" /\ session_data.arch = "tar"
           THEN safe_extract(made, tp.path, session_data.members, filter)
           ELSE IF /\ storage.format = "zip"
                   /\ IsZipFile(session_data, download_zip_data(session_data))
           THEN zip_extractall(made, tp.path, session_data.members, 1)
           ELSE [ok |-> FALSE, fs |-> made]
  IN IF fault = "get" THEN [result |-> "raise", fs |-> f, path |-> tp.path]
     ELSE IF session_key \notin DOMAIN r
     THEN [result |-> "ok", fs |-> made, path |-> tp.path]
     ELSE [result |-> IF x.ok THEN "ok" ELSE "raise", fs |-> x.fs,
           path |-> tp.path]

\* a variant of download that treats a value of unknown format as it treats
\* an absent session
RedisStorage_download_lenient(f, r, user_id, session_id, fault, filter) ==
  LET session_key == get_key(user_id, session_id)
      tp == get_temp_path(f, user_id, session_id)
      made == makedirs(rmtree(tp.fs, tp.path), tp.path)
      session_data == r[session_key]
      x == IF detect_format(session_data) = "tar.gz" /\ session_data.arch = "tar"
           THEN safe_extract(made, tp.path, session_data.members, filter)
           ELSE IF /\ detect_format(session_data) = "zip"
                   /\ IsZipFile(session_data, download_zip_data(session_data))
           THEN zip_extractall(made, tp.path, session_data.members, 1)
           ELSE [ok |-> detect_format(session_data) = "unknown", fs |-> made]
  IN IF fault = "get" THEN [result |-> "raise", fs |-> f, path |-> tp.path]
     ELSE IF session_key \notin DOMAIN r
     THEN [result |-> "ok", fs |-> made, path |-> tp.path]
     ELSE [result |-> IF x.ok THEN "ok" ELSE "raise", fs |-> x.fs,
           path |-> tp.path]

\* json.loads of the value of a metadata key: the JSON text that upload
\* wrote parses; any other bytes are decoded as text first (no byte string
\* of the model with a byte above 127 is text in the encoding json detects)
\* and then fail to parse
json_loads(metadata_data) ==
  IF "fileCount" \in DOMAIN metadata_data THEN "ok"
  ELSE IF \E i \in 1..Len(metadata_data.bytes) : metadata_data.bytes[i] > 127
  THEN "UnicodeDecodeError"
  ELSE "JSONDecodeError"

\* the metadata step of download: only json.JSONDecodeError is caught
metadata_raises(r, metadata_key) ==
  /\ metadata_key \in DOMAIN r
  /\ "fileCount" \in DOMAIN r[metadata_key] \/ r[metadata_key].bytes # <<>>
  /\ json_loads(r[metadata_key]) = "UnicodeDecodeError"

RedisStorage_download(f, r, user_id, session_id, fault, filter) ==
  LET session_key == get_key(user_id, session_id)
      metadata_key == get_metadata_key(user_id, session_id)
      tp == get_temp_path(f, user_id, session_id)
      target_path == tp.path
      cleared == IF exists(tp.fs, target_path)
                 THEN rmtree(tp.fs, target_path) ELSE tp.fs
      made == makedirs(cleared, target_path)
  IN IF fault = "get" THEN [result |-> "raise", fs |-> f, path |-> target_path]
     ELSE IF session_key \notin DOMAIN r
     THEN [result |-> "ok", fs |-> made, path |-> target_path]
     ELSE IF metadata_raises(r, metadata_key)
     THEN [result |-> "raise", fs |-> made, path |-> target_path]
     ELSE LET session_data == r[session_key]
              format_type == detect_format(session_data)
              x == IF format_type = "tar.gz"
                   THEN (IF session_data.arch = "tar"
                         THEN safe_extract(made, target_path,
                                           session_data.members, filter)
                         ELSE [ok |-> FALSE, fs |-> made])
                   ELSE IF format_type = "zip"
                   THEN (IF IsZipFile(session_data, download_zip_data(session_data))
                         THEN zip_extractall(made, target_path,
                                             session_data.members, 1)
                         ELSE [ok |-> FALSE, fs |-> made])
                   ELSE [ok |-> FALSE, fs |-> made]
          IN [result |-> IF x.ok THEN "ok" ELSE "raise", fs |-> x.fs,
              path |-> target_path]

Metadata(members) == [fileCount |-> Len(members), version |-> "2.0"]

\* a variant of upload that writes the metadata key in both formats
RedisStorage_upload_both_keys(f, r, user_id, session_id, file_path, format, fault) ==
  LET session_key == get_key(user_id, session_id)
      metadata_key == get_metadata_key(user_id, session_id)
      members == IF format = "tar.gz"
                 THEN TarAdd(f, file_path, TarArcname(file_path))
                 ELSE ZipWalk(f, file_path, <<>>, 1)
      session_data == IF format = "tar.gz" THEN TarGzBlob(members)
                      ELSE ZipBase64Blob(members)
      r1 == (session_key :> session_data) @@ r
  IN IF ~exists(f, file_path) \/ fault = "set_data"
     THEN [result |-> "raise", redis |-> r]
     ELSE IF fault = "set_metadata" THEN [result |-> "raise", redis |-> r1]
     ELSE [result |-> "ok",
           redis |-> (metadata_key :> Metadata(ZipWalk(f, file_path, <<>>, 1)))
                       @@ r1]

\* a variant that stores with SET ... NX: an existing value is kept
RedisStorage_upload_nx(f, r, user_id, session_id, file_path, format, fault) ==
  LET session_key == get_key(user_id, session_id)
      metadata_key == get_metadata_key(user_id, session_id)
      members == IF format = "tar.gz"
                 THEN TarAdd(f, file_path, TarArcname(file_path))
                 ELSE ZipWalk(f, file_path, <<>>, 1)
      session_data == IF format = "tar.gz" THEN TarGzBlob(members)
                      ELSE ZipBase64Blob(members)
  IN IF ~exists(f, file_path) \/ fault # "none"
     THEN [result |-> "raise", redis |-> r]
     ELSE [result |-> "ok",
           redis |-> r @@ (session_key :> session_data)
                       @@ (IF format = "zip"
                           THEN (metadata_key :> Metadata(members)) ELSE <<>>)]

RedisStorage_upload(f, r, user_id, session_id, file_path, format, fault) ==
  LET session_key == get_key(user_id, session_id)
      metadata_key == get_metadata_key(user_id, session_id)
  IN IF ~exists(f, file_path) THEN [result |-> "raise", redis |-> r]
     ELSE IF format = "tar.gz"
     THEN LET session_data == TarGzBlob(TarAdd(f, file_path, TarArcname(file_path)))
          IN IF fault = "set_data" THEN [result |-> "raise", redis |-> r]
             ELSE [result |-> "ok", redis |-> (session_key :> session_data) @@ r]
     ELSE LET members == ZipWalk(f, file_path, <<>>, 1)
              zip_data == ZipBase64Blob(members)
              r1 == (session_key :> zip_data) @@ r
          IN IF fault = "set_data" THEN [result |-> "raise", redis |-> r]
             ELSE IF fault = "set_metadata" THEN [result |-> "raise", redis |-> r1]
             ELSE [result |-> "ok",
                   redis |-> (metadata_key :> Metadata(members)) @@ r1]

\* a variant of delete_session that deletes the metadata key only
RedisStorage_delete_session_metadata_only(r, user_id, session_id, fault) ==
  LET metadata_key == get_metadata_key(user_id, session_id)
  IN IF fault # "none" THEN [result |-> "raise", redis |-> r]
     ELSE [result |-> "ok", redis |-> Restrict(r, DOMAIN r \ {metadata_key})]

\* a variant of delete_session that deletes the primary key only, and
\* raises when there is none
RedisStorage_delete_session_primary_only(r, user_id, session_id, fault) ==
  LET session_key == get_key(user_id, session_id)
  IN IF fault # "none" \/ session_key \notin DOMAIN r
     THEN [result |-> "raise", redis |-> r]
     ELSE [result |-> "ok", redis |-> Restrict(r, DOMAIN r \ {session_key})]

RedisStorage_delete_session(r, user_id, session_id, fault) ==
  LET session_key == get_key(user_id, session_id)
      metadata_key == get_metadata_key(user_id, session_id)
      r1 == Restrict(r, DOMAIN r \ {session_key})
  IN IF fault = "delete_data" THEN [result |-> "raise", redis |-> r]
     ELSE IF fault = "delete_metadata" THEN [result |-> "raise", redis |-> r1]
     ELSE [result |-> "ok", redis |-> Restrict(r1, DOMAIN r1 \ {metadata_key})]

\* Redis glob matching of one part of a key against one part of a pattern:
\* "*" matches any text, "?" any single character
GlobMatch(pat, part) ==
  \/ pat = part
  \/ pat = "*"
  \/ pat = "?" /\ Len(Chars(part)) = 1

\* redis_client.keys(f"{self.key_prefix}:{user_id}:*"): the user id is put
\* in the pattern as it is
KeysOfUser(r, user_id) ==
  LET lead == <<KeyPrefix>> \o Parts(user_id)
  IN {k \in DOMAIN r : /\ Len(k) > Len(lead)
                       /\ \A i \in 1..Len(lead) : GlobMatch(lead[i], k[i])}

\* a variant of list_sessions that reports one entry for every key found
RedisStorage_list_sessions_all(r, user_id, fault) ==
  IF fault = "keys" THEN <<>>
  ELSE LET keys == SetToSeq(KeysOfUser(r, user_id))
       IN [i \in 1..Len(keys) |-> keys[i][3]]

RedisStorage_list_sessions(r, user_id, fault) ==
  IF fault = "keys" THEN <<>>
  ELSE LET keys == KeysOfUser(r, user_id)
           kept == {parts \in keys :
                      /\ ~(Len(parts) > 3 /\ parts[4] = "metadata")
                      /\ Len(parts) = 3}
           session_ids == {parts[3] : parts \in kept}
       IN SetToSeq(session_ids)

(***************************************************************************)
(* BrowserState (browser_state.py)                                         *)
(***************************************************************************)
\* self.active_session = None
NoSession == [id |-> "", path |-> <<>>]

\* LocalStorage's methods are coroutine functions and BrowserState calls
\* them without awaiting: the call returns a coroutine object and the body
\* does not run
Coroutine == <<"<coroutine>">>

\* a provider given as options.storage_provider that cannot reach its
\* backend: its every operation raises
Unreachable == [kind |-> "unreachable", format |-> "-"]

Storages ==
  {[kind |-> "redis", format |-> "zip"], [kind |-> "redis", format |-> "tar.gz"],
   [kind |-> "local", format |-> "-"], Unreachable}

\* the default extraction filter of the interpreter's tarfile
ExtractionFilters == {"fully_trusted", "data"}

\* mount_session() without an argument: session_id is None
None == "<None>"

\* session ids passed to the manager
MountIds == {"s1", "", None}

\* a variant of _cleanup_session that removes the directory and keeps the
\* reference to the session
cleanup_session_keeps_reference(f, active, rm_fails) ==
  IF active = NoSession \/ active.path = Coroutine \/ rm_fails
  THEN [fs |-> f, active |-> active]
  ELSE [fs |-> rmtree(f, active.path), active |-> active]

\* BrowserState._cleanup_session; rm_fails: shutil.rmtree raises.  Every
\* exception is caught, and then the reference is not cleared.
cleanup_session(f, active, rm_fails) ==
  IF active = NoSession THEN [fs |-> f, active |-> active]
  ELSE IF active.path = Coroutine THEN [fs |-> f, active |-> active]
  ELSE IF exists(f, active.path)
  THEN (IF rm_fails THEN [fs |-> f, active |-> active]
        ELSE [fs |-> rmtree(f, active.path), active |-> NoSession])
  ELSE [fs |-> f, active |-> NoSession]

\* what the latest successful upload of a session was given (history)
\* and which files of the upload before it that upload no longer had
NotPersisted == [has |-> FALSE, tree |-> <<>>, format |-> "-", dropped |-> {}]

Persisted(before, tree, format) ==
  [has |-> TRUE, tree |-> tree, format |-> format,
   dropped |-> IF before.has
               THEN DOMAIN Files(before.tree) \ DOMAIN Files(tree) ELSE {}]

Changed(before, after) ==
  {q \in DOMAIN after : q \notin DOMAIN before \/ before[q] # after[q]}

\* what a call changed that is neither in the target directory nor above it
Outside(before, after, target) ==
  {q \in Changed(before, after) : ~IsPrefix(target, q) /\ ~IsPrefix(q, target)}

WithinBound(f, file_path) ==
  \A r \in DOMAIN TreeOf(f, file_path) : Len(r) <= MaxPathLen

\* the step that failed in a call, if any
FaultName(fault, rm_fails) ==
  IF fault # "none" THEN fault ELSE IF rm_fails THEN "rmtree" ELSE "none"

\* the latest call: its arguments, the fault injected in it, what it
\* returned and what it changed outside its target directory; for
\* delete_session whether the session was stored before (had), for
\* list_sessions the list returned (listed); the user id of the call (uid);
\* for mount_session the session id it was called with (given); the
\* manager that made the call where there are two (by); for an
\* unmount_session that raised, what the session's primary key held when
\* the call began (stored)
NotStored == [has |-> FALSE, value |-> <<>>]

Outcome(op, st, sid, result, calls, prev, path, outside, fault) ==
  [op |-> op, kind |-> st.kind, format |-> st.format, sid |-> sid,
   result |-> result, calls |-> calls, prev |-> prev, path |-> path,
   outside |-> outside, fault |-> fault, had |-> FALSE, listed |-> <<>>,
   uid |-> UserId, given |-> None, by |-> "", stored |-> NotStored]

AfterUpload(ps, sid, up, r, tree, format) ==
  IF up.result = "ok"
  THEN [ps EXCEPT ![sid] = Persisted(ps[sid], tree, format)]
  ELSE IF up.redis # r THEN [ps EXCEPT ![sid] = NotPersisted]
  ELSE ps

\* a variant of mount_session that does not record the session it mounted
mount_without_reference(f, r, st, active, session_id, fault, rm_fails, filter) ==
  LET c == cleanup_session(f, active, rm_fails)
      d == IF st.kind = "redis"
           THEN RedisStorage_download(c.fs, r, UserId, session_id, fault, filter)
           ELSE [result |-> IF st.kind = "local" THEN "ok" ELSE "raise",
                 fs |-> c.fs, path |-> Coroutine]
  IN [result |-> d.result, fs |-> d.fs, active |-> c.active,
      calls |-> <<<<"download", session_id>>>>, path |-> d.path,
      outside |-> Outside(c.fs, d.fs, d.path)]

\* BrowserState.mount_session
mount(f, r, st, active, session_id, fault, rm_fails, filter) ==
  LET c == cleanup_session(f, active, rm_fails)
      calls == <<<<"download", session_id>>>>
  IN IF st.kind = "local"
     THEN [result |-> "ok", fs |-> c.fs,
           active |-> [id |-> session_id, path |-> Coroutine],
           calls |-> calls, path |-> Coroutine, outside |-> {}]
     ELSE IF st.kind = "unreachable"
     THEN [result |-> "raise", fs |-> c.fs, active |-> c.active,
           calls |-> calls, path |-> <<>>, outside |-> {}]
     ELSE LET d == RedisStorage_download(c.fs, r, UserId, session_id, fault, filter)
          IN [result |-> d.result, fs |-> d.fs,
              active |-> IF d.result = "ok"
                         THEN [id |-> session_id, path |-> d.path]
                         ELSE c.active,
              calls |-> calls, path |-> d.path,
              outside |-> Outside(c.fs, d.fs, d.path)]

\* a variant of unmount_session without the test for an active session
unmount_without_check(f, r, st, active, ps, fault, rm_fails) ==
  LET up == IF st.kind = "redis"
            THEN RedisStorage_upload(f, r, UserId, active.id, active.path,
                                     st.format, fault)
            ELSE [result |-> IF st.kind = "local" THEN "ok" ELSE "raise",
                  redis |-> r]
      c == cleanup_session(f, active, rm_fails)
      ps1 == IF st.kind = "redis"
             THEN AfterUpload(ps, active.id, up, r, TreeOf(f, active.path),
                              st.format)
             ELSE ps
  IN IF up.result = "raise"
     THEN [result |-> "raise", fs |-> f, redis |-> up.redis, active |-> active,
           persisted |-> ps1, calls |-> <<<<"upload", active.id>>>>]
     ELSE [result |-> "ok", fs |-> c.fs, redis |-> up.redis,
           active |-> c.active, persisted |-> ps1,
           calls |-> <<<<"upload", active.id>>>>]

\* BrowserState.unmount_session; "noop": the return without an active
\* session
unmount(f, r, st, active, ps, fault, rm_fails) ==
  IF active = NoSession
  THEN [result |-> "noop", fs |-> f, redis |-> r, active |-> active,
        persisted |-> ps, calls |-> <<>>]
  ELSE IF st.kind = "local"
  THEN LET c == cleanup_session(f, active, rm_fails)
       IN [result |-> "ok", fs |-> c.fs, redis |-> r, active |-> c.active,
           persisted |-> ps, calls |-> <<<<"upload", active.id>>>>]
  ELSE IF st.kind = "unreachable"
  THEN [result |-> "raise", fs |-> f, redis |-> r, active |-> active,
        persisted |-> ps, calls |-> <<<<"upload", active.id>>>>]
  ELSE LET up == RedisStorage_upload(f, r, UserId, active.id, active.path,
                                     st.format, fault)
           c == cleanup_session(f, active, rm_fails)
           ps1 == AfterUpload(ps, active.id, up, r, TreeOf(f, active.path),
                              st.format)
       IN IF up.result = "raise"
          THEN [result |-> "raise", fs |-> f, redis |-> up.redis,
                active |-> active, persisted |-> ps1,
                calls |-> <<<<"upload", active.id>>>>]
          ELSE [result |-> "ok", fs |-> c.fs, redis |-> up.redis,
                active |-> c.active, persisted |-> ps1,
                calls |-> <<<<"upload", active.id>>>>]

\* a variant of list_sessions that lets the provider's error out
BrowserState_list_sessions_propagates(r, st, fault) ==
  IF st.kind = "unreachable" \/ fault = "keys"
  THEN [result |-> "raise", listed |-> <<>>]
  ELSE IF st.kind = "local" THEN [result |-> "ok", listed |-> Coroutine]
  ELSE [result |-> "ok", listed |-> RedisStorage_list_sessions(r, UserId, fault)]

\* BrowserState.list_sessions: what the provider returns, and an empty list
\* when the provider raises
BrowserState_list_sessions(r, st, fault) ==
  IF st.kind = "unreachable" THEN [result |-> "ok", listed |-> <<>>]
  ELSE IF st.kind = "local" THEN [result |-> "ok", listed |-> Coroutine]
  ELSE [result |-> "ok", listed |-> RedisStorage_list_sessions(r, UserId, fault)]

Init ==
  /\ fs = [q \in {TempDir, BasePath} |-> DIR]
  /\ redis = <<>>
  /\ storage \in Storages
  /\ active_session = NoSession
  /\ persisted = [s \in AllSessions |-> NotPersisted]
  /\ last = Outcome("init", storage, "", "ok", <<>>, "", <<>>, {}, "none")
  /\ steps = 0

\* the caller (a browser) writes a file in the mounted directory
CallerWrite ==
  \E w \in CallerWrites :
    /\ active_session # NoSession
    /\ active_session.path # Coroutine
    /\ exists(fs, active_session.path)
    /\ fs' = WriteFile(fs, active_session.path \o w.rel, w.data)
    /\ last' = Outcome("write", storage, active_session.id, "ok", <<>>, "", <<>>, {}, "none")
    /\ UNCHANGED <<redis, storage, active_session, persisted>>

mount_session ==
  \E sid \in MountIds, fault \in DownloadFaults, rm_fails \in BOOLEAN,
     filter \in ExtractionFilters :
    LET session_id == IF sid \in {"", None} THEN GeneratedId ELSE sid
        m == mount(fs, redis, storage, active_session, session_id, fault,
                   rm_fails, filter)
    IN /\ sid \in {"", None} =>
            /\ get_key(UserId, GeneratedId) \notin DOMAIN redis
            /\ ~exists(fs, TempPath(UserId, GeneratedId))
            /\ active_session.id # GeneratedId
       /\ rm_fails => (active_session # NoSession /\ exists(fs, active_session.path))
       /\ fault # "none" => storage.kind = "redis"
       /\ fs' = m.fs
       /\ active_session' = m.active
       /\ last' = [Outcome("mount", storage, session_id, m.result, m.calls,
                           active_session.id, m.path, m.outside,
                           FaultName(fault, rm_fails))
                     EXCEPT !.given = sid]
       /\ UNCHANGED <<redis, storage, persisted>>

unmount_session ==
  \E fault \in UploadFaults, rm_fails \in BOOLEAN :
    /\ rm_fails => (active_session # NoSession /\ exists(fs, active_session.path)
                    /\ fault = "none")
    /\ fault # "none" => (storage.kind = "redis" /\ active_session # NoSession)
    /\ fault = "set_metadata" => storage.format = "zip"
    /\ (active_session # NoSession /\ active_session.path # Coroutine) =>
         WithinBound(fs, active_session.path)
    /\ LET u == unmount(fs, redis, storage, active_session, persisted,
                        fault, rm_fails)
       IN /\ fs' = u.fs
          /\ redis' = u.redis
          /\ active_session' = u.active
          /\ persisted' = u.persisted
          /\ last' = [Outcome("unmount", storage, active_session.id, u.result,
                              u.calls, active_session.id, active_session.path,
                              {}, FaultName(fault, rm_fails))
                        EXCEPT !.stored =
                          IF /\ u.result = "raise"
                             /\ get_key(UserId, active_session.id) \in DOMAIN redis
                          THEN [has |-> TRUE,
                                value |-> redis[get_key(UserId, active_session.id)]]
                          ELSE NotStored]
    /\ UNCHANGED storage

delete_session ==
  \E sid \in {"s1", GeneratedId}, fault \in UploadFaults, dfault \in DeleteFaults,
     rm_fails \in BOOLEAN :
    LET is_active == active_session # NoSession /\ active_session.id = sid
        u == IF is_active
             THEN unmount(fs, redis, storage, active_session, persisted,
                          fault, rm_fails)
             ELSE [result |-> "ok", fs |-> fs, redis |-> redis,
                   active |-> active_session, persisted |-> persisted]
        d == IF storage.kind = "local" THEN [result |-> "ok", redis |-> u.redis]
             ELSE IF storage.kind = "unreachable"
             THEN [result |-> "raise", redis |-> u.redis]
             ELSE RedisStorage_delete_session(u.redis, UserId, sid, dfault)
        ucalls == IF is_active THEN <<<<"upload", sid>>>> ELSE <<>>
    IN /\ rm_fails => (is_active /\ exists(fs, active_session.path) /\ fault = "none")
       /\ fault # "none" => (storage.kind = "redis" /\ is_active)
       /\ fault = "set_metadata" => storage.format = "zip"
       /\ dfault # "none" => (storage.kind = "redis" /\ fault = "none")
       /\ (is_active /\ active_session.path # Coroutine) =>
            WithinBound(fs, active_session.path)
       /\ fs' = u.fs
       /\ active_session' = u.active
       /\ IF u.result = "raise"
          THEN /\ redis' = u.redis
               /\ persisted' = u.persisted
               /\ last' = Outcome("delete", storage, sid, "raise", ucalls,
                                  active_session.id, <<>>, {}, FaultName(IF fault # "none" THEN fault ELSE dfault, rm_fails))
          ELSE /\ redis' = d.redis
               /\ persisted' = IF d.redis # u.redis
                               THEN [u.persisted EXCEPT ![sid] = NotPersisted]
                               ELSE u.persisted
               /\ last' = Outcome("delete", storage, sid, d.result,
                                  Append(ucalls, <<"delete_session", sid>>),
                                  active_session.id, <<>>, {}, FaultName(IF fault # "none" THEN fault ELSE dfault, rm_fails))
       /\ UNCHANGED storage

list_sessions ==
  \E fault \in ListFaults :
    LET l == BrowserState_list_sessions(redis, storage, fault)
    IN /\ fault # "none" => storage.kind = "redis"
       /\ last' = [Outcome("list", storage, "", l.result, <<<<"list_sessions", "">>>>,
                           active_session.id, <<>>, {}, fault)
                     EXCEPT !.listed = l.listed]
       /\ UNCHANGED <<fs, redis, storage, active_session, persisted>>

\* one more operation of the run
Step == steps < MaxSteps /\ steps' = steps + 1

Next ==
  \/ Step /\ CallerWrite
  \/ Step /\ mount_session
  \/ Step /\ unmount_session
  \/ Step /\ delete_session
  \/ Step /\ list_sessions

Spec == Init /\ [][Next]_vars

TypeOK ==
  /\ \A q \in DOMAIN fs : \A i \in 1..Len(q) :
       q[i] \in {"tmp", "base", "browserstate", UserId}
                \cup {NameOrder[j] : j \in 1..Len(NameOrder)}
  /\ active_session = NoSession \/ active_session.id \in AllSessions

(***************************************************************************)
(* The session manager: statements about mount_session / unmount_session   *)
(***************************************************************************)
\* C1: when the upload inside unmount_session raises, the exception reaches
\* the caller and the manager has no active session afterwards
\* (get_active_session() returns None).
C1_FailedUnmountClearsActiveSession ==
  (last.op = "unmount" /\ last.result = "raise") => active_session = NoSession

\* C2: mount_session called while a session A is active first unmounts A in
\* full: A is uploaded (so it is stored afterwards), and only then is the new
\* session downloaded.
C2_MountUnmountsActiveSessionFirst ==
  (last.op = "mount" /\ last.prev # "" /\ last.fault = "none") =>
    /\ last.calls = <<<<"upload", last.prev>>, <<"download", last.sid>>>>
    /\ storage.kind = "redis" => get_key(UserId, last.prev) \in DOMAIN redis

\* C3: with every backend, a mount returns a directory, empty when the
\* session is not stored, and a mount that follows a successful unmount
\* returns a directory holding the files the unmounted directory had, at the
\* same relative paths and with the same contents.
C3_ManagerRoundTrip ==
  (last.op = "mount" /\ last.result = "ok") =>
    /\ last.path # Coroutine
    /\ exists(fs, last.path)
    /\ (storage.kind = "redis" /\ get_key(UserId, last.sid) \notin DOMAIN redis)
         => TreeOf(fs, last.path) = <<>>
    /\ persisted[last.sid].has =>
         \A r \in DOMAIN Files(persisted[last.sid].tree) :
           /\ r \in DOMAIN TreeOf(fs, last.path)
           /\ TreeOf(fs, last.path)[r] = persisted[last.sid].tree[r]

\* C22: when a session is active and both the upload and the removal of the
\* local directory succeed, unmount_session has the effect on storage of one
\* StorageProvider.upload call with the manager's user id and the active
\* session's id and path; on return there is no active session and the
\* local working directory does not exist.
C22_UnmountUploadsOnceAndCleansUp ==
  [][(/\ last'.op = "unmount" /\ last'.result = "ok" /\ last'.fault = "none"
      /\ active_session # NoSession /\ active_session.path # Coroutine) =>
       /\ last'.calls = <<<<"upload", active_session.id>>>>
       /\ storage.kind = "redis"
       /\ redis' = RedisStorage_upload(fs, redis, UserId, active_session.id,
                                       active_session.path, storage.format,
                                       "none").redis
       /\ get_key(UserId, active_session.id) \in DOMAIN redis'
       /\ active_session' = NoSession
       /\ ~exists(fs', active_session.path)]_vars

\* C22, its case: an unmount has uploaded a working directory with files in
\* it and removed it
C22_Witness ==
  /\ last.op = "unmount" /\ last.result = "ok" /\ last.fault = "none"
  /\ last.prev # "" /\ last.path # Coroutine
  /\ persisted[last.prev].has /\ persisted[last.prev].tree # <<>>
  /\ active_session = NoSession
  /\ ~exists(fs, last.path)

\* C23: unmount_session without an active session (at the start, or a second
\* time right after a successful unmount) returns without raising, calls no
\* operation of the provider and changes neither the manager nor storage.
C23_UnmountOfNothing ==
  [][(last'.op = "unmount" /\ active_session = NoSession) =>
       /\ last'.result = "noop"
       /\ last'.calls = <<>>
       /\ UNCHANGED <<fs, redis, storage, active_session, persisted>>]_vars

\* C23, its case: the third operation of a manager is an unmount without an
\* active session, and s1 is stored: the operations before it were a mount
\* and the unmount that stored s1
C23_Witness ==
  /\ last.op = "unmount" /\ last.result = "noop" /\ last.calls = <<>>
  /\ steps = 3
  /\ persisted["s1"].has
  /\ active_session = NoSession

\* C24: delete_session(s) for the active session s unmounts first and then
\* calls StorageProvider.delete_session; when no step fails there is no
\* active session afterwards, s is not in list_sessions(), and a later
\* mount(s) returns an empty directory.
C24_DeleteOfActiveSession ==
  (/\ last.op = "delete" /\ last.prev = last.sid /\ last.result = "ok"
   /\ last.fault = "none") =>
    /\ last.calls = <<<<"upload", last.sid>>, <<"delete_session", last.sid>>>>
    /\ active_session = NoSession
    /\ LET l == BrowserState_list_sessions(redis, storage, "none").listed
       IN \A i \in 1..Len(l) : l[i] # last.sid
    /\ LET m == mount(fs, redis, storage, active_session, last.sid, "none",
                      FALSE, "data")
       IN /\ m.result = "ok"
          /\ exists(m.fs, m.path)
          /\ TreeOf(m.fs, m.path) = <<>>

\* C25: BrowserState.list_sessions raises nothing and returns an empty list
\* when the provider's list_sessions raises; it changes neither the active
\* session nor storage; with the Redis provider, whose list_sessions returns
\* an empty list itself when the enumeration of the keys fails, the manager
\* returns that empty list.
C25_ListSessionsNeverRaises ==
  [][last'.op = "list" =>
       /\ last'.result = "ok"
       /\ UNCHANGED <<fs, redis, storage, active_session, persisted>>
       /\ (storage.kind = "unreachable" \/ last'.fault = "keys") =>
            last'.listed = <<>>
       /\ RedisStorage_list_sessions(redis, UserId, "keys") = <<>>]_vars

\* C25, its case: the enumeration of the keys failed while a session was
\* stored and one was mounted, and list_sessions returned an empty list
C25_Witness ==
  /\ last.op = "list" /\ last.fault = "keys" /\ last.result = "ok"
  /\ last.listed = <<>>
  /\ get_key(UserId, "s1") \in DOMAIN redis
  /\ active_session # NoSession

\* C26: mount_session with the empty string as session id raises a
\* validation error and does not call StorageProvider.download; the empty
\* id is not replaced by a generated one.
C26_EmptySessionIdRejected ==
  (last.op = "mount" /\ last.given = "") =>
    /\ last.result = "raise"
    /\ last.calls = <<>>
    /\ last.sid # GeneratedId

StoredSession == "s1"

\* the caller writes a file in a directory that a download handed out
WorkingCopyWrite ==
  \E s \in Sessions, w \in CallerWrites :
    /\ exists(fs, TempPath(UserId, s))
    /\ fs' = WriteFile(fs, TempPath(UserId, s) \o w.rel, w.data)
    /\ last' = Outcome("write", storage, s, "ok", <<>>, "", <<>>, {}, "none")
    /\ UNCHANGED <<redis, storage, active_session, persisted>>

Redis_download ==
  \E s \in Sessions, fault \in DownloadFaults, filter \in ExtractionFilters :
    LET d == RedisStorage_download(fs, redis, UserId, s, fault, filter)
    IN /\ storage.kind = "redis"
       /\ fs' = d.fs
       /\ last' = Outcome("download", storage, s, d.result, <<>>, "", d.path,
                          Outside(fs, d.fs, d.path), fault)
       /\ UNCHANGED <<redis, storage, active_session, persisted>>

\* upload by this instance or by an instance configured with the other
\* format, on the same database
Redis_upload ==
  \E src \in Sessions, format \in Formats, fault \in UploadFaults :
    LET s == StoredSession
        file_path == TempPath(UserId, src)
        up == RedisStorage_upload(fs, redis, UserId, s, file_path, format, fault)
    IN /\ storage.kind = "redis"
       /\ fault = "set_metadata" => format = "zip"
       /\ WithinBound(fs, file_path)
       /\ redis' = up.redis
       /\ persisted' = AfterUpload(persisted, s, up, redis, TreeOf(fs, file_path),
                                   format)
       /\ last' = Outcome("upload", [kind |-> "redis", format |-> format], s,
                          up.result, <<>>, "", file_path, {}, fault)
       /\ UNCHANGED <<fs, storage, active_session>>

Redis_delete_session ==
  \E fault \in DeleteFaults :
    LET s == StoredSession
        d == RedisStorage_delete_session(redis, UserId, s, fault)
    IN /\ storage.kind = "redis"
       /\ redis' = d.redis
       /\ persisted' = IF d.redis # redis
                       THEN [persisted EXCEPT ![s] = NotPersisted] ELSE persisted
       /\ last' = [Outcome("delete_session", storage, s, d.result, <<>>, "",
                           <<>>, {}, fault)
                     EXCEPT !.had = get_key(UserId, s) \in DOMAIN redis]
       /\ UNCHANGED <<fs, storage, active_session>>

\* a zip file as it is, without the base64 layer; rest: characters further
\* on in the file (a file name), which base64 decoding does not discard
ZipRawBlob(members, rest) ==
  [bytes |-> ZipHead(members) \o rest, arch |-> "zip", members |-> members]

\* four bytes that are no magic number, and base64 text of a zip file behind
\* the gzip magic number: neither is an archive
NoArchive(bytes) == [bytes |-> bytes, arch |-> "none", members |-> <<>>]

\* values that another writer of the same Redis database can store
ForeignBlobs ==
  {TarGzBlob(<<Member(<<"ok">>, "file", "hello"),
               Member(<<"..", "..", "evil">>, "file", "hello")>>),
   TarGzBlob(<<Member(<<"ok">>, "file", "hello"),
               Member(<<"..", "s12", "x">>, "file", "hello")>>),
   ZipBase64Blob(<<Member(<<"..", "..", "evil">>, "file", "hello")>>),
   ZipRawBlob(<<Member(<<"..", "..", "evil">>, "file", "hello")>>, <<>>),
   ZipRawBlob(<<Member(<<"ok">>, "file", "hello")>>, <<111, 107>>),
   NoArchive(<<0, 1, 2, 3>>),
   NoArchive(GzipMagic \o b64encode(ZipHead(<<"x">>)))}

ForeignRedisWrite ==
  \E b \in ForeignBlobs :
    /\ storage.kind = "redis"
    /\ redis' = (get_key(UserId, StoredSession) :> b) @@ redis
    /\ persisted' = [persisted EXCEPT ![StoredSession] = NotPersisted]
    /\ last' = Outcome("foreign", storage, StoredSession, "ok", <<>>, "", <<>>, {}, "none")
    /\ UNCHANGED <<fs, storage, active_session>>

Local_download ==
  \E s \in Sessions :
    LET d == LocalStorage_download(fs, UserId, s)
    IN /\ storage.kind = "local"
       /\ fs' = d.fs
       /\ last' = Outcome("download", storage, s, d.result, <<>>, "", d.path,
                          Outside(fs, d.fs, d.path), "none")
       /\ UNCHANGED <<redis, storage, active_session, persisted>>

Local_upload ==
  \E src \in Sessions :
    LET s == StoredSession
        file_path == TempPath(UserId, src)
        up == LocalStorage_upload(fs, UserId, s, file_path)
    IN /\ storage.kind = "local"
       /\ WithinBound(fs, file_path)
       /\ fs' = up.fs
       /\ persisted' =
            IF up.result = "ok"
            THEN [persisted EXCEPT ![s] = Persisted(persisted[s],
                    TreeOf(fs, file_path), "-")]
            ELSE [persisted EXCEPT ![s] = NotPersisted]
       /\ last' = Outcome("upload", storage, s, up.result, <<>>, "", file_path, {}, "none")
       /\ UNCHANGED <<redis, storage, active_session>>

Local_delete_session ==
  \E s \in Sessions :
    LET d == LocalStorage_delete_session(fs, UserId, s)
    IN /\ storage.kind = "local"
       /\ fs' = d.fs
       /\ persisted' = [persisted EXCEPT ![s] = NotPersisted]
       /\ last' = [Outcome("delete_session", storage, s, d.result, <<>>, "",
                           <<>>, {}, "none")
                     EXCEPT !.had = exists(fs, SessionPath(UserId, s))]
       /\ UNCHANGED <<redis, storage, active_session>>

\* a session directory put under the base path by another writer (the
\* tests create stored sessions this way)
ExternalLocalWrite ==
  \E w \in CallerWrites :
    /\ storage.kind = "local"
    /\ fs' = WriteFile(fs, SessionPath(UserId, StoredSession) \o w.rel, w.data)
    /\ persisted' = [persisted EXCEPT ![StoredSession] = NotPersisted]
    /\ last' = Outcome("external", storage, StoredSession, "ok", <<>>, "", <<>>, {}, "none")
    /\ UNCHANGED <<redis, storage, active_session>>

ProviderStep == steps < ProviderMaxSteps /\ steps' = steps + 1

ProviderNext ==
  \/ ProviderStep /\ WorkingCopyWrite
  \/ ProviderStep /\ Redis_download
  \/ ProviderStep /\ Redis_upload
  \/ ProviderStep /\ Redis_delete_session
  \/ ProviderStep /\ ForeignRedisWrite
  \/ ProviderStep /\ Local_download
  \/ ProviderStep /\ Local_upload
  \/ ProviderStep /\ Local_delete_session
  \/ ProviderStep /\ ExternalLocalWrite

ProviderSpec == Init /\ [][ProviderNext]_vars

(***************************************************************************)
(* The stored sessions: upload, list_sessions and delete_session by        *)
(* RedisStorage instances of either format, with session ids of any form,  *)
(* and by LocalStorage                                                     *)
(***************************************************************************)
KeySessions == {"s1", "s12", DelimiterId}

\* a second user, whose id is a key-pattern metacharacter
PatternUser == "*"
KeyUsers == {UserId, PatternUser}

\* the directory that is uploaded: a working directory with one file
SourceDir == TempPath(UserId, "s1")

KeyInit ==
  /\ fs = WriteFile([q \in {TempDir, BasePath} |-> DIR], SourceDir \o <<"a">>,
                    "hello")
  /\ redis = <<>>
  /\ storage \in {st \in Storages : st.format # "tar.gz"}
  /\ active_session = NoSession
  /\ persisted = [s \in AllSessions |-> NotPersisted]
  /\ last = Outcome("init", storage, "", "ok", <<>>, "", <<>>, {}, "none")
  /\ steps = 0

Instance_upload ==
  \E u \in KeyUsers, s \in KeySessions, format \in Formats, fault \in UploadFaults :
    LET up == RedisStorage_upload(fs, redis, u, s, SourceDir, format, fault)
    IN /\ storage.kind = "redis"
       /\ fault = "set_metadata" => format = "zip"
       /\ u # UserId => (s = "s1" /\ format = "zip" /\ fault = "none")
       /\ redis' = up.redis
       /\ persisted' = IF u = UserId
                       THEN AfterUpload(persisted, s, up, redis,
                                        TreeOf(fs, SourceDir), format)
                       ELSE persisted
       /\ last' = [Outcome("upload", [kind |-> "redis", format |-> format], s,
                           up.result, <<>>, "", SourceDir, {}, fault)
                     EXCEPT !.uid = u]
       /\ UNCHANGED <<fs, storage, active_session>>

Instance_delete_session ==
  \E u \in KeyUsers, s \in KeySessions, fault \in DeleteFaults :
    LET d == RedisStorage_delete_session(redis, u, s, fault)
    IN /\ storage.kind = "redis"
       /\ u # UserId => (s = "s1" /\ fault = "none")
       /\ redis' = d.redis
       /\ persisted' = IF u = UserId /\ d.redis # redis
                       THEN [persisted EXCEPT ![s] = NotPersisted] ELSE persisted
       /\ last' = [Outcome("delete_session", storage, s, d.result, <<>>, "",
                           <<>>, {}, fault)
                     EXCEPT !.had = get_key(u, s) \in DOMAIN redis, !.uid = u]
       /\ UNCHANGED <<fs, storage, active_session>>

Instance_list_sessions ==
  \E u \in KeyUsers, fault \in ListFaults :
    /\ storage.kind = "redis"
    /\ last' = [Outcome("list_sessions", storage, "", "ok", <<>>, "", <<>>, {},
                        fault)
                  EXCEPT !.listed = RedisStorage_list_sessions(redis, u, fault),
                         !.uid = u]
    /\ UNCHANGED <<fs, redis, storage, active_session, persisted>>

Local_list_sessions ==
  LET l == LocalStorage_list_sessions(fs, UserId)
  IN /\ storage.kind = "local"
     /\ fs' = l.fs
     /\ last' = [Outcome("list_sessions", storage, "", "ok", <<>>, "", <<>>, {},
                         "none")
                   EXCEPT !.listed = l.listed]
     /\ UNCHANGED <<redis, storage, active_session, persisted>>

KeyStep == steps < KeyMaxSteps /\ steps' = steps + 1

KeyNext ==
  \/ KeyStep /\ Instance_upload
  \/ KeyStep /\ Instance_delete_session
  \/ KeyStep /\ Instance_list_sessions
  \/ KeyStep /\ Local_upload
  \/ KeyStep /\ Local_delete_session
  \/ KeyStep /\ ExternalLocalWrite
  \/ KeyStep /\ Local_list_sessions

KeySpec == KeyInit /\ [][KeyNext]_vars

\* C12: RedisStorage: upload, download, list_sessions and delete_session
\* called with a user id or a session id that contains ":" raise a
\* validation error before any Redis command, so that the store is
\* unchanged (and so does the constructor for such a key prefix).
C12_DelimiterRejected ==
  (/\ last.op \in {"upload", "delete_session"} /\ last.kind = "redis"
   /\ Len(Parts(last.sid)) > 1) =>
    last.result = "raise"

\* C17: RedisStorage: an upload writes the metadata side-key exactly when
\* the instance's format is zip; an upload in tar.gz format writes the
\* primary key only and leaves the metadata key as it was.
C17_MetadataOnlyForZip ==
  [][(last'.op = "upload" /\ last'.kind = "redis" /\ last'.result = "ok") =>
       LET pk == get_key(last'.uid, last'.sid)
           mk == get_metadata_key(last'.uid, last'.sid)
       IN /\ pk \in DOMAIN redis'
          /\ detect_format(redis'[pk]) \in {last'.format, "unknown"}
          /\ IF last'.format = "zip"
             THEN /\ mk \in DOMAIN redis'
                  /\ redis'[mk].fileCount
                       = Cardinality(DOMAIN Files(TreeOf(fs, last'.path)))
             ELSE /\ mk \in DOMAIN redis' <=> mk \in DOMAIN redis
                  /\ mk \in DOMAIN redis => redis'[mk] = redis[mk]]_vars

\* C17, its case: a tar.gz upload succeeded on a session that has a metadata
\* key from an earlier zip upload
C17_Witness ==
  /\ last.op = "upload" /\ last.result = "ok"
  /\ last.kind = "redis" /\ last.format = "tar.gz"
  /\ get_metadata_key(last.uid, last.sid) \in DOMAIN redis
  /\ "fileCount" \in DOMAIN redis[get_metadata_key(last.uid, last.sid)]
  /\ detect_format(redis[get_key(last.uid, last.sid)]) = "tar.gz"

\* the keys of the store are those that delimiter-free ids produce: primary
\* keys, and metadata keys that hold metadata
PlainKeys ==
  \A k \in DOMAIN redis :
    \/ Len(k) = 3
    \/ Len(k) = 4 /\ k[4] = "metadata" /\ "fileCount" \in DOMAIN redis[k]

Listed(f, r) ==
  IF storage.kind = "local"
  THEN LET l == LocalStorage_list_sessions(f, UserId).listed
       IN {l[i] : i \in 1..Len(l)}
  ELSE LET l == RedisStorage_list_sessions(r, UserId, "none")
       IN {l[i] : i \in 1..Len(l)}

C20_DeleteRemovesAllAndIsIdempotent ==
  [][(last'.op = "delete_session" /\ last'.fault = "none") =>
       LET pk == get_key(last'.uid, last'.sid)
           mk == get_metadata_key(last'.uid, last'.sid)
           sp == SessionPath(last'.uid, last'.sid)
       IN /\ last'.result = "ok"
          /\ last'.kind = "redis" =>
               /\ redis' = Restrict(redis, DOMAIN redis \ {pk, mk})
               /\ fs' = fs
          /\ last'.kind = "local" =>
               /\ \A q \in DOMAIN fs' : ~IsPrefix(sp, q)
               /\ \A q \in DOMAIN fs : ~IsPrefix(sp, q) =>
                    (q \in DOMAIN fs' /\ fs'[q] = fs[q])
               /\ Listed(fs', redis') = Listed(fs, redis) \ {last'.sid}]_vars

\* C20, its case: delete_session returned normally for a session that was
\* not stored, next to a stored one
C20_Witness ==
  /\ last.op = "delete_session" /\ last.fault = "none" /\ last.result = "ok"
  /\ ~last.had
  /\ Listed(fs, redis) # {}

\* what list_sessions(u) returns in a store, as a set
ListedFor(r, u) ==
  LET l == RedisStorage_list_sessions(r, u, "none")
  IN {l[i] : i \in 1..Len(l)}

\* C21: RedisStorage, two distinct user ids, one of them a pattern
\* character: list_sessions(u1) returns only session ids that are stored
\* under u1, and an upload or a delete_session under u1 changes neither what
\* is stored under another user u2 (what download reads) nor what
\* list_sessions(u2) returns.
C21_UsersAreIsolated ==
  [][/\ (last'.op = "list_sessions" /\ last'.kind = "redis") =>
          \A i \in 1..Len(last'.listed) :
            get_key(last'.uid, last'.listed[i]) \in DOMAIN redis'
     /\ (last'.op \in {"upload", "delete_session"} /\ last'.kind = "redis") =>
          \A u2 \in KeyUsers \ {last'.uid} :
            /\ ListedFor(redis', u2) = ListedFor(redis, u2)
            /\ \A s \in KeySessions :
                 /\ get_key(u2, s) \in DOMAIN redis' <=> get_key(u2, s) \in DOMAIN redis
                 /\ get_key(u2, s) \in DOMAIN redis =>
                      redis'[get_key(u2, s)] = redis[get_key(u2, s)]]_vars

\* C36: in every state of the store that uploads and deletes by instances
\* of either format reach, each command of which may fail, a metadata key
\* is there only if the primary key of the same user and session is (a
\* metadata key: one that holds the metadata an upload wrote).
C36_MetadataOnlyWithPrimary ==
  \A s \in Sessions :
    (/\ get_metadata_key(UserId, s) \in DOMAIN redis
     /\ "fileCount" \in DOMAIN redis[get_metadata_key(UserId, s)]) =>
      get_key(UserId, s) \in DOMAIN redis

(***************************************************************************)
(* The providers: statements about upload / download                       *)
(***************************************************************************)
\* the files of the directory that the latest download handed out
Downloaded == Files(TreeOf(fs, last.path))

\* the file entries of an archive, by entry name
BlobFiles(b) ==
  LET idx == {i \in 1..Len(b.members) : b.members[i].type = "file"}
  IN [n \in {b.members[i].name : i \in idx} |->
        (b.members[CHOOSE i \in idx : b.members[i].name = n]).data]

\* the same, with the root entry of a tar archive taken off the names
BlobFilesBelowRoot(b) ==
  IF b.arch = "tar"
  THEN [r \in {Tail(n) : n \in DOMAIN BlobFiles(b)} |->
          BlobFiles(b)[CHOOSE n \in DOMAIN BlobFiles(b) : Tail(n) = r]]
  ELSE BlobFiles(b)

\* what the backend holds for a session, by relative path
StoredFiles(s) ==
  IF storage.kind = "local" THEN Files(TreeOf(fs, SessionPath(UserId, s)))
  ELSE IF get_key(UserId, s) \in DOMAIN redis
  THEN BlobFilesBelowRoot(redis[get_key(UserId, s)])
  ELSE <<>>

IsStored(s) ==
  IF storage.kind = "local" THEN exists(fs, SessionPath(UserId, s))
  ELSE get_key(UserId, s) \in DOMAIN redis

\* C4: Redis backend, format "zip": a download that follows an upload of a
\* tree T succeeds and yields a directory whose files (relative paths and
\* contents) are T's, for every T, empty files and subdirectories included.
C4_ZipRoundTrip ==
  (/\ last.op = "download" /\ last.fault = "none"
   /\ persisted[last.sid].has /\ persisted[last.sid].format = "zip") =>
    /\ last.result = "ok"
    /\ Downloaded = Files(persisted[last.sid].tree)

\* C5: Redis backend, format "tar.gz": a download that follows an upload of a
\* tree T yields T's files at the same relative paths, with no top-level
\* directory named after T above them.
C5_TarGzRoundTrip ==
  (/\ last.op = "download" /\ last.fault = "none"
   /\ persisted[last.sid].has /\ persisted[last.sid].format = "tar.gz") =>
    /\ last.result = "ok"
    /\ Downloaded = Files(persisted[last.sid].tree)

\* C6: local backend: upload of an existing directory P succeeds, and a
\* download after it yields P's files.
C6_LocalRoundTrip ==
  /\ (last.op = "upload" /\ last.kind = "local" /\ exists(fs, last.path))
       => last.result = "ok"
  /\ (last.op = "download" /\ last.kind = "local" /\ persisted[last.sid].has)
       => (last.result = "ok" /\ Downloaded = Files(persisted[last.sid].tree))

\* C7: for every backend, after an upload of P succeeds the stored session
\* holds exactly P's files, and a file that only an earlier upload had is
\* not in the directory a later download returns.
C7_UploadReplacesStoredSession ==
  /\ (last.op = "upload" /\ last.result = "ok")
       => StoredFiles(last.sid) = Files(TreeOf(fs, last.path))
  /\ (last.op = "download" /\ last.result = "ok" /\ persisted[last.sid].has)
       => \A q \in DOMAIN Downloaded :
            (IF persisted[last.sid].format = "tar.gz" THEN Tail(q) ELSE q)
              \notin persisted[last.sid].dropped

\* C7, its case: a download succeeded on a session whose latest upload no
\* longer had a file that the upload before it had
C7_Witness ==
  /\ last.op = "download" /\ last.result = "ok"
  /\ persisted[last.sid].has
  /\ persisted[last.sid].dropped # {}

\* C8: Redis and local backends: the download of a session that is not
\* stored returns an existing, empty directory, whatever the working
\* directory held before.
C8_AbsentSessionDownloadsEmpty ==
  (last.op = "download" /\ last.fault = "none" /\ ~IsStored(last.sid)) =>
    /\ last.result = "ok"
    /\ exists(fs, last.path) /\ fs[last.path] = DIR
    /\ TreeOf(fs, last.path) = <<>>

\* C9: Redis and local backends: the download of a stored, well-formed
\* session returns a directory that holds exactly the stored files; what the
\* working directory held before is discarded.
C9_StoredSessionDownloadsExactly ==
  (/\ last.op = "download" /\ last.fault = "none"
   /\ IF storage.kind = "local" THEN IsStored(last.sid)
      ELSE persisted[last.sid].has) =>
    /\ last.result = "ok"
    /\ Downloaded = IF storage.kind = "local" THEN StoredFiles(last.sid)
                    ELSE BlobFiles(redis[get_key(UserId, last.sid)])

\* an archive entry whose resolved path is not the target nor below it
Escapes(path, m) == ~IsPrefix(normpath(path), normpath(path \o m.name))

\* C10: a tar.gz blob with an entry that resolves outside the target
\* directory ("..", or a sibling whose name starts with the target's name)
\* makes download raise before any entry is written: nothing is created in
\* the target directory or outside it.
C10_TarTraversalRejected ==
  (/\ last.op = "download" /\ last.fault = "none" /\ IsStored(last.sid)
   /\ storage.kind = "redis"
   /\ redis[get_key(UserId, last.sid)].arch = "tar"
   /\ \E i \in 1..Len(redis[get_key(UserId, last.sid)].members) :
        Escapes(last.path, redis[get_key(UserId, last.sid)].members[i])) =>
    /\ last.result = "raise"
    /\ last.outside = {}
    /\ TreeOf(fs, last.path) = <<>>

\* C11: a zip value, base64 text or raw bytes, with an entry named
\* ../../evil makes download raise, as it does for a tar.gz value: the
\* entries of a zip are checked against the target before extraction.
C11_ZipTraversalRejected ==
  (/\ last.op = "download" /\ last.fault = "none" /\ IsStored(last.sid)
   /\ storage.kind = "redis"
   /\ detect_format(redis[get_key(UserId, last.sid)]) = "zip"
   /\ \E i \in 1..Len(redis[get_key(UserId, last.sid)].members) :
        Escapes(last.path, redis[get_key(UserId, last.sid)].members[i])) =>
    last.result = "raise"
\* the values stored under the sessions' primary keys
StoredValues == {redis[get_key(UserId, s)] : s \in {s \in Sessions : IsStored(s)}}

\* C13: _detect_format answers by the first rule that matches: the first two
\* bytes are 1F 8B: tar.gz; else base64 decoding succeeds and the decoded
\* bytes start with 50 4B 03 04: zip; else the raw bytes start with
\* 50 4B 03 04: zip; else unknown (so for four bytes that match no magic).
C13_DetectFormatRules ==
  storage.kind = "redis" =>
    \A d \in StoredValues :
      LET gzip == Len(d.bytes) >= 2 /\ d.bytes[1] = 31 /\ d.bytes[2] = 139
          wrapped == /\ b64decode(d.bytes).ok
                     /\ Len(b64decode(d.bytes).bytes) >= 4
                     /\ SubSeq(b64decode(d.bytes).bytes, 1, 4) = <<80, 75, 3, 4>>
          raw == Len(d.bytes) >= 4 /\ SubSeq(d.bytes, 1, 4) = <<80, 75, 3, 4>>
      IN detect_format(d) =
           IF gzip THEN "tar.gz"
           ELSE IF wrapped THEN "zip"
           ELSE IF raw THEN "zip"
           ELSE "unknown"

\* C13, its case: a download has classified a value of four bytes that match
\* no magic number
C13_Witness ==
  /\ last.op = "download" /\ last.fault = "none" /\ storage.kind = "redis"
  /\ IsStored(last.sid)
  /\ Len(redis[get_key(UserId, last.sid)].bytes) = 4
  /\ detect_format(redis[get_key(UserId, last.sid)]) = "unknown"
\* C14: RedisStorage: when the primary key of a session holds a value that
\* classifies as unknown, download raises; it does not return normally with
\* an empty directory as it does for an absent session.
C14_UnknownFormatRaises ==
  (/\ last.op = "download" /\ last.fault = "none" /\ storage.kind = "redis"
   /\ IsStored(last.sid)
   /\ detect_format(redis[get_key(UserId, last.sid)]) = "unknown") =>
    last.result = "raise"

\* C14, its case: a download found a value of unknown format and raised,
\* after the target directory had been emptied
C14_Witness ==
  /\ last.op = "download" /\ last.fault = "none" /\ storage.kind = "redis"
  /\ IsStored(last.sid)
  /\ detect_format(redis[get_key(UserId, last.sid)]) = "unknown"
  /\ last.result = "raise"
  /\ exists(fs, last.path) /\ TreeOf(fs, last.path) = <<>>
C16_MetadataWriteBestEffort ==
  (last.op = "upload" /\ last.kind = "redis" /\ last.fault = "set_metadata") =>
    /\ last.result = "ok"
    /\ persisted[last.sid].has

\* C37: when RedisStorage.upload raises, neither the primary key nor the
\* metadata key of the session has been modified.
C37_FailedUploadChangesNothing ==
  [][(last'.op = "upload" /\ last'.kind = "redis" /\ last'.result = "raise") =>
       redis' = redis]_vars

\* C34: a download of a value that _detect_format calls zip hands the zip
\* extractor bytes that start with the zip magic number: the value's own
\* bytes when only its raw first four bytes are the magic number, the
\* base64-decoded bytes when the base64 rule applied.
C34_ZipExtractorGetsZipBytes ==
  (/\ last.op = "download" /\ last.fault = "none"
   /\ get_key(UserId, last.sid) \in DOMAIN redis
   /\ detect_format(redis[get_key(UserId, last.sid)]) = "zip") =>
     LET data == redis[get_key(UserId, last.sid)]
         by_base64 == /\ b64decode(data.bytes).ok
                      /\ Take(b64decode(data.bytes).bytes, 4) = ZipMagic
     IN /\ Take(download_zip_data(data), 4) = ZipMagic
        /\ download_zip_data(data) =
             (IF by_base64 THEN b64decode(data.bytes).bytes ELSE data.bytes)

(***************************************************************************)
(* The session manager: statements that use the stored files               *)
(***************************************************************************)
\* C28: a mount of the session that is already mounted, with no unmount in
\* between, returns the path the first mount returned and leaves that one
\* session active; the directory at that path exists and holds the files
\* of the stored session, and nothing else.
C28_DoubleMountIsIdempotent ==
  [][(/\ last'.op = "mount" /\ last'.result = "ok" /\ last'.fault = "none"
      /\ active_session # NoSession /\ active_session.id = last'.sid) =>
       /\ last'.path = active_session.path
       /\ active_session' = active_session
       /\ exists(fs', last'.path)
       /\ Files(TreeOf(fs', last'.path))
            = IF get_key(UserId, last'.sid) \in DOMAIN redis
              THEN BlobFiles(redis[get_key(UserId, last'.sid)]) ELSE <<>>]_vars

\* C38: when mount_session raises, no session is active afterwards, whatever
\* was active before and whether or not the previous working directory
\* could be removed.
C38_FailedMountLeavesNoSession ==
  (last.op = "mount" /\ last.result = "raise") => active_session = NoSession

\* C39: delete_session(s) for the active session s whose upload fails
\* raises, does not call the provider's delete_session, and leaves what is
\* stored as it was.
C39_FailedDeleteOfActiveSession ==
  [][(/\ last'.op = "delete"
      /\ active_session # NoSession /\ active_session.id = last'.sid
      /\ \/ last'.fault \in {"set_data", "set_metadata"}
         \/ storage.kind = "unreachable"
         \/ storage.kind = "redis" /\ ~exists(fs, active_session.path)) =>
       /\ last'.result = "raise"
       /\ last'.calls = <<<<"upload", last'.sid>>>>
       /\ redis' = redis]_vars

\* C40: when unmount_session returns without raising, no session is active,
\* also when the upload succeeded and the working directory could not be
\* removed.
C40_UnmountReturnClearsActiveSession ==
  (last.op = "unmount" /\ last.result \in {"ok", "noop"}) =>
    active_session = NoSession

\* C32: a mount_session(s) that follows a failed unmount of s and whose
\* download succeeds returns a directory that holds what was stored for s
\* before the failed unmount, never the files of the working copy whose
\* upload failed.
C32_MountAfterFailedUnmount ==
  [][(/\ last.op = "unmount" /\ last.result = "raise" /\ last.kind = "redis"
      /\ last'.op = "mount" /\ last'.result = "ok" /\ last'.sid = last.sid) =>
       /\ active_session'.id = last'.sid
       /\ Files(TreeOf(fs', last'.path)) =
            (IF last.stored.has THEN BlobFiles(last.stored.value) ELSE <<>>)]_vars

(***************************************************************************)
(* Construction: BrowserState.__init__ chooses the provider from the       *)
(* options                                                                 *)
(***************************************************************************)
\* an options dictionary without entries
EmptyDict == "{}"

\* BrowserStateOptions: every option is None by default
OptionValues ==
  [storage_provider : {None, "provider"},
   s3_options : {None, EmptyDict, "s3"},
   gcs_options : {None, EmptyDict, "gcs"},
   redis_options : {None, EmptyDict} \cup Formats,
   local_storage_path : {None, "base"}]

\* `if options.x:` is the truth value of the option
Truthy(x) == x \notin {None, EmptyDict}

\* a variant of __init__ that looks at the Redis options before the
\* object-store options
BrowserState_init_redis_first(options) ==
  IF Truthy(options.storage_provider) THEN [storage |-> Unreachable, made |-> <<>>]
  ELSE IF Truthy(options.redis_options)
  THEN [storage |-> [kind |-> "redis", format |-> options.redis_options],
        made |-> <<"RedisStorage">>]
  ELSE IF Truthy(options.s3_options)
  THEN [storage |-> [kind |-> "s3", format |-> "-"], made |-> <<"S3Storage">>]
  ELSE IF Truthy(options.gcs_options)
  THEN [storage |-> [kind |-> "gcs", format |-> "-"], made |-> <<"GCSStorage">>]
  ELSE [storage |-> [kind |-> "local", format |-> "-"], made |-> <<"LocalStorage">>]

\* BrowserState.__init__: the provider it keeps and the constructors it
\* calls
BrowserState_init(options) ==
  IF Truthy(options.storage_provider) THEN [storage |-> Unreachable, made |-> <<>>]
  ELSE IF Truthy(options.s3_options)
  THEN [storage |-> [kind |-> "s3", format |-> "-"], made |-> <<"S3Storage">>]
  ELSE IF Truthy(options.gcs_options)
  THEN [storage |-> [kind |-> "gcs", format |-> "-"], made |-> <<"GCSStorage">>]
  ELSE IF Truthy(options.redis_options)
  THEN [storage |-> [kind |-> "redis", format |-> options.redis_options],
        made |-> <<"RedisStorage">>]
  ELSE [storage |-> [kind |-> "local", format |-> "-"], made |-> <<"LocalStorage">>]

\* before construction: the options are chosen, there is no provider yet
OptionsInit ==
  /\ fs = [q \in {TempDir, BasePath} |-> DIR]
  /\ redis = <<>>
  /\ storage = [kind |-> "-", format |-> "-"]
  /\ active_session = NoSession
  /\ persisted = [s \in AllSessions |-> NotPersisted]
  /\ last \in [op : {"options"}, options : OptionValues, made : {<<>>}]
  /\ steps = 0

\* BrowserState(options)
Construct ==
  LET b == BrowserState_init(last.options)
  IN /\ last.op = "options"
     /\ storage' = b.storage
     /\ active_session' = NoSession
     /\ last' = [op |-> "construct", options |-> last.options, made |-> b.made]
     /\ steps' = steps + 1
     /\ UNCHANGED <<fs, redis, persisted>>

OptionsNext == Construct

OptionsSpec == OptionsInit /\ [][OptionsNext]_vars

\* C29: at construction exactly one backend is chosen, by the precedence
\* custom storage_provider, S3 options, GCS options, Redis options, local
\* storage; options of lower precedence that are present too cause no
\* backend to be instantiated.
C29_BackendPrecedence ==
  last.op = "construct" =>
    LET o == last.options
        custom == o.storage_provider = "provider"
        s3 == o.s3_options = "s3"
        gcs == o.gcs_options = "gcs"
        rds == o.redis_options \in Formats
    IN /\ storage.kind =
            IF custom THEN "unreachable"
            ELSE IF s3 THEN "s3"
            ELSE IF gcs THEN "gcs"
            ELSE IF rds THEN "redis"
            ELSE "local"
       /\ last.made = IF custom THEN <<>>
                      ELSE IF s3 THEN <<"S3Storage">>
                      ELSE IF gcs THEN <<"GCSStorage">>
                      ELSE IF rds THEN <<"RedisStorage">>
                      ELSE <<"LocalStorage">>
       /\ storage.kind = "redis" => storage.format = o.redis_options

\* C29, its case: S3, GCS and Redis options and a local path are given
\* together, and only the S3 provider has been instantiated
C29_Witness ==
  /\ last.op = "construct"
  /\ last.options.storage_provider = None
  /\ last.options.s3_options = "s3" /\ last.options.gcs_options = "gcs"
  /\ last.options.redis_options \in Formats
  /\ last.options.local_storage_path = "base"
  /\ storage.kind = "s3"
  /\ last.made = <<"S3Storage">>

(***************************************************************************)
(* Two BrowserState instances of one user, with the Redis provider, on one *)
(* host: they share the Redis database and the temporary directory         *)
(***************************************************************************)
\* number of operations of the two managers in a run
PairMaxSteps == 5

Managers == {"A", "B"}

PairInit ==
  /\ fs = [q \in {TempDir, BasePath} |-> DIR]
  /\ redis = <<>>
  /\ storage \in {st \in Storages : st.kind = "redis"}
  /\ active_session = [m \in Managers |-> NoSession]
  /\ persisted = [s \in AllSessions |-> NotPersisted]
  /\ last = Outcome("init", storage, "", "ok", <<>>, "", <<>>, {}, "none")
  /\ steps = 0

\* the caller of one manager writes a file in its mounted directory
Pair_CallerWrite ==
  \E m \in Managers, w \in CallerWrites :
    /\ active_session[m] # NoSession
    /\ exists(fs, active_session[m].path)
    /\ fs' = WriteFile(fs, active_session[m].path \o w.rel, w.data)
    /\ last' = [Outcome("write", storage, active_session[m].id, "ok", <<>>, "",
                        <<>>, {}, "none") EXCEPT !.by = m]
    /\ UNCHANGED <<redis, storage, active_session, persisted>>

Pair_mount_session ==
  \E m \in Managers, sid \in Sessions \cup {NestedId}, filter \in ExtractionFilters :
    LET x == mount(fs, redis, storage, active_session[m], sid, "none", FALSE,
                   filter)
    IN /\ fs' = x.fs
       /\ active_session' = [active_session EXCEPT ![m] = x.active]
       /\ last' = [Outcome("mount", storage, sid, x.result, x.calls,
                           active_session[m].id, x.path, x.outside, "none")
                     EXCEPT !.given = sid, !.by = m]
       /\ UNCHANGED <<redis, storage, persisted>>

Pair_unmount_session ==
  \E m \in Managers :
    LET u == unmount(fs, redis, storage, active_session[m], persisted, "none",
                     FALSE)
    IN /\ (active_session[m] # NoSession /\ exists(fs, active_session[m].path))
            => WithinBound(fs, active_session[m].path)
       /\ fs' = u.fs
       /\ redis' = u.redis
       /\ active_session' = [active_session EXCEPT ![m] = u.active]
       /\ persisted' = u.persisted
       /\ last' = [Outcome("unmount", storage, active_session[m].id, u.result,
                           u.calls, active_session[m].id, active_session[m].path,
                           {}, "none") EXCEPT !.by = m]
       /\ UNCHANGED storage

PairStep == steps < PairMaxSteps /\ steps' = steps + 1

PairNext ==
  \/ PairStep /\ Pair_CallerWrite
  \/ PairStep /\ Pair_mount_session
  \/ PairStep /\ Pair_unmount_session

PairSpec == PairInit /\ [][PairNext]_vars

\* C30: two managers have mounted the same session of the same user and
\* unmount one after the other: the second unmount raises nothing, and
\* afterwards storage holds what the second manager's directory held.
C30_SecondUnmountOverwritesFirst ==
  [][(/\ last.op = "unmount" /\ last.result = "ok" /\ last.sid # ""
      /\ last'.op = "unmount" /\ last'.by # last.by /\ last'.sid = last.sid) =>
       /\ last'.result = "ok"
       /\ persisted'[last'.sid].has
       /\ get_key(UserId, last'.sid) \in DOMAIN redis']_vars

\* C31: two different sessions of a user have working paths of which
\* neither lies inside the other, and a mount or unmount of one session
\* leaves the working copy of the other session as it was.
C31_WorkingCopiesAreDisjoint ==
  [][\A m \in Managers, n \in Managers :
       (/\ last'.by = m /\ n # m /\ last'.op \in {"mount", "unmount"}
        /\ active_session[n] # NoSession
        /\ active_session[n].id # last'.sid) =>
         /\ ~IsPrefix(active_session[n].path, TempPath(UserId, last'.sid))
         /\ ~IsPrefix(TempPath(UserId, last'.sid), active_session[n].path)
         /\ TreeOf(fs', active_session[n].path) = TreeOf(fs, active_session[n].path)
         /\ exists(fs, active_session[n].path) = exists(fs', active_session[n].path)]_vars

(***************************************************************************)
(* One RedisStorage instance archiving a directory that has empty          *)
(* subdirectories, and another writer of the metadata key                  *)
(***************************************************************************)
\* number of operations in a run
ArchiveMaxSteps == 4

\* the directory that is uploaded
ArchiveSource == TempPath(UserId, "s12")

\* what the caller puts in the directory: the files of CallerWrites and an
\* empty directory
SourceWrites == CallerWrites \cup {[rel |-> <<"d">>, data |-> DIR]}

\* what another writer stores under the metadata key: JSON of an upload
\* long gone, text that is no JSON, bytes that are no text, nothing
MetadataValues ==
  {[fileCount |-> 7, version |-> "1.0"], NoArchive(<<123>>),
   NoArchive(<<255, 254, 0>>), NoArchive(<<>>)}

ArchiveInit ==
  /\ fs = makedirs([q \in {TempDir, BasePath} |-> DIR], ArchiveSource)
  /\ redis = <<>>
  /\ storage \in {st \in Storages : st.kind = "redis"}
  /\ active_session = NoSession
  /\ persisted = [s \in AllSessions |-> NotPersisted]
  /\ last = Outcome("init", storage, "", "ok", <<>>, "", <<>>, {}, "none")
  /\ steps = 0

Archive_SourceWrite ==
  \E w \in SourceWrites :
    /\ ArchiveSource \o w.rel \notin DOMAIN fs
    /\ fs' = WriteFile(fs, ArchiveSource \o w.rel, w.data)
    /\ last' = Outcome("write", storage, "s12", "ok", <<>>, "", <<>>, {}, "none")
    /\ UNCHANGED <<redis, storage, active_session, persisted>>

Archive_upload ==
  \E fault \in UploadFaults :
    LET up == RedisStorage_upload(fs, redis, UserId, StoredSession,
                                  ArchiveSource, storage.format, fault)
    IN /\ fault = "set_metadata" => storage.format = "zip"
       /\ redis' = up.redis
       /\ persisted' = AfterUpload(persisted, StoredSession, up, redis,
                                   TreeOf(fs, ArchiveSource), storage.format)
       /\ last' = Outcome("upload", storage, StoredSession, up.result, <<>>, "",
                          ArchiveSource, {}, fault)
       /\ UNCHANGED <<fs, storage, active_session>>

Archive_MetadataWrite ==
  \E v \in MetadataValues :
    /\ redis' = (get_metadata_key(UserId, StoredSession) :> v) @@ redis
    /\ last' = Outcome("foreign", storage, StoredSession, "ok", <<>>, "", <<>>,
                       {}, "none")
    /\ UNCHANGED <<fs, storage, active_session, persisted>>

Archive_download ==
  \E fault \in DownloadFaults :
    LET d == RedisStorage_download(fs, redis, UserId, StoredSession, fault,
                                   "data")
    IN /\ fs' = d.fs
       /\ last' = Outcome("download", storage, StoredSession, d.result, <<>>, "",
                          d.path, Outside(fs, d.fs, d.path), fault)
       /\ UNCHANGED <<redis, storage, active_session, persisted>>

ArchiveStep == steps < ArchiveMaxSteps /\ steps' = steps + 1

ArchiveNext ==
  \/ ArchiveStep /\ Archive_SourceWrite
  \/ ArchiveStep /\ Archive_upload
  \/ ArchiveStep /\ Archive_MetadataWrite
  \/ ArchiveStep /\ Archive_download

ArchiveSpec == ArchiveInit /\ [][ArchiveNext]_vars

\* the directories of a tree that have nothing in them
EmptyDirs(t) ==
  {r \in DOMAIN t : t[r] = DIR /\ ~\E q \in DOMAIN t : IsPrefix(r, q) /\ q # r}

\* C33: Redis backend, both formats: a download that succeeds after the
\* upload of a tree has every empty subdirectory of that tree, at the same
\* relative path.
C33_EmptyDirectoriesSurvive ==
  (/\ last.op = "download" /\ last.result = "ok"
   /\ persisted[StoredSession].has) =>
     \A r \in EmptyDirs(persisted[StoredSession].tree) :
       /\ r \in DOMAIN TreeOf(fs, last.path)
       /\ TreeOf(fs, last.path)[r] = DIR

\* C35: for a given primary value, download does what it would do with the
\* metadata key absent: the same result and the same files, whatever the
\* metadata key holds.
C35_MetadataNeverInfluencesDownload ==
  [][last'.op = "download" =>
       LET without == Restrict(redis, DOMAIN redis \ {get_metadata_key(UserId, StoredSession)})
           d == RedisStorage_download(fs, without, UserId, StoredSession,
                                      last'.fault, "data")
       IN /\ last'.result = d.result
          /\ fs' = d.fs]_vars
====
